---- MODULE Spec2Model ----
(***************************************************************************)
(* LookML project analyzer (src/app.py, src/list_used_views.py).           *)
(*                                                                         *)
(* Texts.  A text (a Python str) is a sequence of lexemes.  A lexeme is    *)
(* either a maximal run of word characters [A-Za-z0-9_] (one string such   *)
(* as "explore" or "customer_id") or one single other character (":", "{", *)
(* "}", ";", "(", "#", one blank " ", one line break "\n", ...).  Two word *)
(* lexemes are never adjacent (they would be one run).  Every regular      *)
(* expression and substring test of the source reads a word run as a whole *)
(* (\b, a following \s*: or a greedy [a-zA-Z0-9_]+) or looks at its end or *)
(* its start, so each is translated lexeme by lexeme.  Indices are 1-based *)
(* (Python index i is i+1 here) and Python's -1 / None "not found" is 0.   *)
(***************************************************************************)
EXTENDS Integers, Sequences, FiniteSets, TLC

\* the block extractor on its own: the input and keyword, what one call
\* returned (by each copy of the extractor), and the caller's recursion
VARIABLES text, keyword, blocks, blocks_luv, called, work, found

\* the analysis: the tree under repo_path, the lru_cache of
\* get_view_description_coverage, what analyze_repo last returned and showed,
\* the findings of generate_assessment; reads counts, per path, the open()
\* calls of get_view_description_coverage in the last run, cache_before is
\* the lru_cache as the last run found it, and analyzed says that the last
\* run was on the tree as it stands
VARIABLES tree, cache, cache_before, reads, returned, st_log, assessments, analyzed

blockVars == <<text, keyword, blocks, blocks_luv, called, work, found>>

repoVars == <<tree, cache, cache_before, reads, returned, st_log, assessments, analyzed>>

vars == <<blockVars, repoVars>>

----------------------------------------------------------------------------
(* Lexemes *)

Punct ==
    {":", "{", "}", ";", ".", "=", "(", ")", "#", " ", "\n", "[", "]", ",", "-",
     "\"", "$"}

\* \s of the regular expressions: a blank or a line break
IsSpace(l) == l \in {" ", "\n"}

\* a run of [a-zA-Z0-9_]+
IsWord(l) == l \notin Punct

\* no two word runs are adjacent
WellFormed(t) == \A i \in 1..(Len(t) - 1) : ~(IsWord(t[i]) /\ IsWord(t[i + 1]))

\* \s* from position i on: the first position at or after i that holds no space
RECURSIVE SkipSpace(_, _)
SkipSpace(t, i) ==
    IF i <= Len(t) /\ IsSpace(t[i]) THEN SkipSpace(t, i + 1) ELSE i

\* t[i] when i is a position of t, else the empty string (no lexeme)
At(t, i) == IF i >= 1 /\ i <= Len(t) THEN t[i] ELSE ""

----------------------------------------------------------------------------
(* strip_lookml_comments: re.sub(r"#.*", "", text); "." stops at a line break *)

\* the positions of t in order
Positions(t) == [i \in 1..Len(t) |-> i]

\* position k is matched by #.* : a "#" before it (or at it) on the same line
InComment(t, k) ==
    \E h \in 1..k : t[h] = "#" /\ \A m \in h..k : t[m] # "\n"

strip_lookml_comments(t) ==
    LET kept == SelectSeq(Positions(t), LAMBDA k : ~InComment(t, k))
    IN  [j \in 1..Len(kept) |-> t[kept[j]]]

----------------------------------------------------------------------------
(* find_matching_brace, extract_named_blocks *)

\* the loop of find_matching_brace from position i on with the depth so far;
\* the characters that are no brace leave the depth as it is, so the loop is
\* followed from brace to brace
RECURSIVE ScanBrace(_, _, _)
ScanBrace(t, i, depth) ==
    LET braces == {k \in i..Len(t) : t[k] \in {"{", "}"}}
        b == CHOOSE k \in braces : \A m \in braces : k <= m
    IN  IF braces = {} THEN 0
        ELSE IF t[b] = "{" THEN ScanBrace(t, b + 1, depth + 1)
        ELSE IF depth - 1 = 0 THEN b
        ELSE ScanBrace(t, b + 1, depth - 1)

\* mutant: no depth counting, the first "}" after the "{" closes it
find_matching_brace_first_close(t, open_brace_index) ==
    LET cs == {c \in (open_brace_index + 1)..Len(t) : t[c] = "}"}
    IN  IF cs = {} THEN 0 ELSE CHOOSE c \in cs : \A d \in cs : c <= d

\* app.py: depth = 1, scan from open_brace_index + 1
find_matching_brace(t, open_brace_index) == ScanBrace(t, open_brace_index + 1, 1)

\* list_used_views.py: depth = 0, scan from open_brace_index itself
find_matching_brace_luv(t, open_brace_index) == ScanBrace(t, open_brace_index, 0)

\* The pattern \b<keyword>\s*:\s*([a-zA-Z0-9_]+)\s*\{ tried at position i:
\* [name |-> group(1), open |-> the position of "{" (m.end() - 1)], open = 0
\* when the pattern does not match at i.
HeaderMatch(t, i, kw) ==
    LET c == SkipSpace(t, i + 1)
        n == SkipSpace(t, c + 1)
        o == SkipSpace(t, n + 1)
    IN  IF /\ At(t, i) = kw
           /\ At(t, c) = ":"
           /\ n <= Len(t) /\ IsWord(t[n])
           /\ At(t, o) = "{"
        THEN [name |-> t[n], open |-> o]
        ELSE [name |-> "", open |-> 0]

\* mutant: the body keeps the closing brace (slice end off by one)
BlockBody_with_close(t, open_brace_index, close_brace_index) ==
    SubSeq(t, open_brace_index + 1, close_brace_index)

\* text[open_brace_index + 1 : close_brace_index]
BlockBody(t, open_brace_index, close_brace_index) ==
    SubSeq(t, open_brace_index + 1, close_brace_index - 1)

\* pattern.finditer(text): the positions where the pattern matches, in order.
\* A match ends at its "{" and what lies between its keyword and its "{" is
\* spaces, one ":" and the name, so no match starts inside another and the
\* scan, which goes on after the end of each match, finds every one.
MatchStarts(t, kw) ==
    SelectSeq(Positions(t), LAMBDA i : HeaderMatch(t, i, kw).open # 0)

extract_named_blocks(t, kw) ==
    LET closed == SelectSeq(MatchStarts(t, kw),
                    LAMBDA i : find_matching_brace(t, HeaderMatch(t, i, kw).open) # 0)
    IN  [k \in 1..Len(closed) |->
            LET m == HeaderMatch(t, closed[k], kw)
                close_brace_index == find_matching_brace(t, m.open)
            IN  [name |-> m.name, body |-> BlockBody(t, m.open, close_brace_index)]]

\* list_used_views.py's copy (its own find_matching_brace)
extract_named_blocks_luv(t, kw) ==
    LET closed == SelectSeq(MatchStarts(t, kw),
                    LAMBDA i : find_matching_brace_luv(t, HeaderMatch(t, i, kw).open) # 0)
    IN  [k \in 1..Len(closed) |->
            LET m == HeaderMatch(t, closed[k], kw)
                close_brace_index == find_matching_brace_luv(t, m.open)
            IN  [name |-> m.name, body |-> BlockBody(t, m.open, close_brace_index)]]

----------------------------------------------------------------------------
(* File contents the analyzed trees are built from, lexeme by lexeme. *)

\* no header line (the only one is commented out) and no field block once
\* comments are stripped
ViewNoHeader ==
    <<"#", " ", "view", ":", " ", "legacy", " ", "{", " ", "dimension", ":",
      " ", "d", " ", "{", "}", " ", "}", "\n">>

\* one header; one dimension, marked primary key, not described
ViewCustomersPk ==
    <<"view", ":", " ", "customers", " ", "{", "\n", " ", " ", "dimension",
      ":", " ", "id", " ", "{", "\n", " ", " ", " ", " ", "primary_key", ":",
      " ", "yes", "\n", " ", " ", "}", "\n", "}", "\n">>

\* one header; 4 fields, 1 described; no primary key
ViewCustomersQuarter ==
    <<"view", ":", " ", "customers", " ", "{", "\n", " ", "dimension", ":",
      " ", "id", " ", "{", " ", "description", ":", " ", "\"", "key", "\"",
      " ", "}", "\n", " ", "dimension", ":", " ", "name", " ", "{", "}",
      "\n", " ", "measure", ":", " ", "n", " ", "{", "}", "\n", " ",
      "measure", ":", " ", "total", " ", "{", " ", "sql", ":", " ", "$", "{",
      "TABLE", "}", ".", "t", " ", ";", ";", " ", "}", "\n", "}", "\n">>

\* two headers; the dimension is a described primary key
ViewTwoHeaders ==
    <<"view", ":", " ", "customers", " ", "{", " ", "dimension", ":", " ",
      "id", " ", "{", " ", "primary_key", ":", " ", "yes", " ",
      "description", ":", " ", "\"", "k", "\"", " ", "}", " ", "}", "\n",
      "view", ":", " ", "orders", " ", "{", " ", "measure", ":", " ", "n",
      " ", "{", "}", " ", "}", "\n">>

\* three headers
ViewThreeHeaders ==
    <<"view", ":", " ", "orders", " ", "{", "}", "\n", "view", ":", " ",
      "customers", " ", "{", "}", "\n", " ", " ", "view", ":", " ", "items",
      " ", "{", " ", "dimension", ":", " ", "sku", " ", "{", " ",
      "primary_key", ":", " ", "yes", " ", "}", " ", "}", "\n">>

\* one header; no field block
ViewOrdersNoFields ==
    <<"view", ":", " ", "orders", " ", "{", "\n", " ", " ", "sql_table_name",
      ":", " ", "shop", ".", "orders", " ", ";", ";", "\n", "}", "\n">>

\* one header, a name with capitals; a dimension marked primary key
ViewCustomerOrders ==
    <<"view", ":", " ", "Customer_Orders", " ", "{", " ", "dimension", ":",
      " ", "id", " ", "{", " ", "primary_key", ":", " ", "yes", " ", "}",
      " ", "}", "\n">>

\* one root with one join (relationship and plain sql_on)
ModelOrdersCustomers ==
    <<"explore", ":", " ", "orders", " ", "{", " ", "join", ":", " ",
      "customers", " ", "{", " ", "relationship", ":", " ", "many_to_one",
      ";", " ", "sql_on", ":", " ", "orders", ".", "customer_id", " ", "=",
      " ", "customers", ".", "id", " ", ";", ";", " ", "}", " ", "}">>

\* a join with a from: override and a function in sql_on, no relationship;
\* a second root with a view_name: override
ModelOverrides ==
    <<"explore", ":", " ", "orders", " ", "{", "\n", " ", "description", ":",
      " ", "\"", "all", " ", "orders", "\"", "\n", " ", "join", ":", " ",
      "buyers", " ", "{", "\n", " ", " ", "from", ":", " ", "customers",
      "\n", " ", " ", "sql_on", ":", " ", "UPPER", "(", "orders", ".",
      "name", ")", " ", "=", " ", "buyers", ".", "name", " ", ";", ";", "\n",
      " ", "}", "\n", "}", "\n", "explore", ":", " ", "people", " ", "{",
      " ", "view_name", ":", " ", "customers", " ", "}", "\n">>

\* no root (the only one is commented out)
ModelNoExplores ==
    <<"connection", ":", " ", "\"", "shop", "\"", "\n", "#", " ", "explore",
      ":", " ", "hidden", " ", "{", " ", "join", ":", " ", "customers", " ",
      "{", "}", " ", "}", "\n">>

\* a root nested in a root, joins at both depths, and a root never closed
ModelNested ==
    <<"explore", ":", " ", "orders", " ", "{", " ", "explore", ":", " ",
      "items", " ", "{", " ", "join", ":", " ", "customers", " ", "{", " ",
      "description", ":", " ", "\"", "c", "\"", " ", "relationship", ":",
      " ", "one_to_one", " ", "}", " ", "}", " ", "join", ":", " ", "orders",
      " ", "{", "}", " ", "}", "\n", "explore", ":", " ", "open", " ", "{",
      " ", "join", ":", " ", "customers", " ", "{", "\n">>

\* a root and a join with capitals in their names; a join whose sql_on holds
\* a name, a blank, then "("
ModelNaming ==
    <<"explore", ":", " ", "Customer_Orders", " ", "{", "\n", " ", "join",
      ":", " ", "customer_orders", " ", "{", " ", "relationship", ":", " ",
      "one_to_one", " ", "sql_on", ":", " ", "lower", " ", "(",
      "Customer_Orders", ".", "id", ")", " ", "=", " ", "customer_orders",
      ".", "id", " ", ";", ";", " ", "}", "\n", " ", "join", ":", " ",
      "Order_Items", " ", "{", " ", "relationship", ":", " ", "many_to_one",
      " ", "sql_on", ":", " ", "Customer_Orders", ".", "id", " ", "=", " ",
      "Order_Items", ".", "id", " ", ";", ";", " ", "}", "\n", "}", "\n">>

\* a tree holds its files' contents by name; f.read() gives the text
ViewContents ==
    {"ViewNoHeader", "ViewCustomersPk", "ViewCustomersQuarter", "ViewTwoHeaders",
     "ViewThreeHeaders", "ViewOrdersNoFields"}

ModelContents ==
    {"ModelOrdersCustomers", "ModelOverrides", "ModelNoExplores", "ModelNested",
     "ModelNaming"}

\* f.read()
Read(f) ==
    CASE f.content = "ViewNoHeader" -> ViewNoHeader
      [] f.content = "ViewCustomersPk" -> ViewCustomersPk
      [] f.content = "ViewCustomersQuarter" -> ViewCustomersQuarter
      [] f.content = "ViewTwoHeaders" -> ViewTwoHeaders
      [] f.content = "ViewThreeHeaders" -> ViewThreeHeaders
      [] f.content = "ViewOrdersNoFields" -> ViewOrdersNoFields
      [] f.content = "ModelOrdersCustomers" -> ModelOrdersCustomers
      [] f.content = "ModelOverrides" -> ModelOverrides
      [] f.content = "ModelNoExplores" -> ModelNoExplores
      [] f.content = "ModelNested" -> ModelNested
      [] f.content = "ViewCustomerOrders" -> ViewCustomerOrders
      [] f.content = "ModelNaming" -> ModelNaming
      [] OTHER -> <<>>

----------------------------------------------------------------------------
(* The analyzed tree: repo_path/views and repo_path/models.                *)
(* A path is [dir |-> the directories below views/ (or models/), file |->  *)
(* <<stem, extension>>].  A file is [mode, content]; mode says what a read *)
(* of it gives during the run:                                             *)
(*   "absent"            not in the tree                                   *)
(*   "ok"                every open() succeeds                             *)
(*   "unreadable"        every open() raises                               *)
(*   "unreadable_later"  read by the scans of views/ (map_views_to_metadata*)
(*                       and get_view_extensions), open() raises afterwards*)
(*   "removed_later"     read by the scans of views/, gone afterwards      *)

\* Python's None
None == [tag |-> "None"]

\* the files of views/ in the order os.walk yields them (top-down)
ViewPaths ==
    << [dir |-> <<>>, file |-> <<"customers", ".view.lkml">>],
       [dir |-> <<"core", "sub">>, file |-> <<"orders", ".view.lkml">>],
       [dir |-> <<"Unknown">>, file |-> <<"Customer_Orders", ".view.lkml">>] >>

\* the files of models/ in the order os.walk yields them
ModelPaths ==
    << [dir |-> <<>>, file |-> <<"sales", ".model.lkml">>],
       [dir |-> <<"ops">>, file |-> <<"ops", ".model.lkml">>] >>

Absent == [mode |-> "absent", content |-> ""]

Unreadable == [mode |-> "unreadable", content |-> ""]

\* what each path of views/ may hold
ViewFiles ==
    << {Absent, Unreadable}
         \cup {[mode |-> "ok", content |-> c] : c \in ViewContents}
         \cup {[mode |-> m, content |-> "ViewCustomersPk"] :
                 m \in {"unreadable_later", "removed_later"}},
       {Absent, Unreadable}
         \cup {[mode |-> "ok", content |-> c] :
                 c \in {"ViewCustomersPk", "ViewCustomersQuarter", "ViewTwoHeaders",
                        "ViewThreeHeaders", "ViewOrdersNoFields",
                        "ViewCustomerOrders"}},
       {Absent, [mode |-> "ok", content |-> "ViewCustomerOrders"]} >>

\* what each path of models/ may hold
ModelFiles ==
    << {Absent, Unreadable} \cup {[mode |-> "ok", content |-> c] : c \in ModelContents},
       {Absent, Unreadable}
         \cup {[mode |-> "ok", content |-> c] :
                 c \in {"ModelOverrides", "ModelNoExplores"}} >>

ViewTrees == {v \in [1..Len(ViewPaths) -> UNION {ViewFiles[i] : i \in 1..Len(ViewPaths)}] :
                \A i \in 1..Len(ViewPaths) : v[i] \in ViewFiles[i]}

ModelTrees == {m \in [1..Len(ModelPaths) -> UNION {ModelFiles[i] : i \in 1..Len(ModelPaths)}] :
                \A i \in 1..Len(ModelPaths) : m[i] \in ModelFiles[i]}

NoViews == [i \in 1..Len(ViewPaths) |-> Absent]

NoModels == [i \in 1..Len(ModelPaths) |-> Absent]

\* the trees: a directory that is missing holds no file
Trees ==
    {[views_dir |-> TRUE, views |-> v, models_dir |-> TRUE, models |-> m] :
        v \in ViewTrees, m \in ModelTrees}
    \cup {[views_dir |-> FALSE, views |-> NoViews, models_dir |-> TRUE, models |-> m] :
            m \in ModelTrees}
    \cup {[views_dir |-> TRUE, views |-> v, models_dir |-> FALSE, models |-> NoModels] :
            v \in ViewTrees}
    \cup {[views_dir |-> FALSE, views |-> NoViews, models_dir |-> FALSE, models |-> NoModels]}

\* os.walk lists the file
Listed(f) == f.mode # "absent"

\* open() succeeds in the scans of views/ and in the loop over the model files
ReadableAtScan(f) == f.mode \in {"ok", "unreadable_later", "removed_later"}

\* os.path.exists(path) after the scans
ExistsLater(f) == f.mode \in {"ok", "unreadable", "unreadable_later"}

\* open() succeeds after the scans
ReadableLater(f) == f.mode = "ok"

\* file.endswith(suffix)
EndsWith(file, suffix) == file # <<>> /\ file[Len(file)] = suffix

\* file.replace(".view.lkml", "")
FileStem(file) == file[1]

\* the index of a path of views/ (0: no such file)
ViewIndex(path) ==
    IF \E i \in 1..Len(ViewPaths) : ViewPaths[i] = path
    THEN CHOOSE i \in 1..Len(ViewPaths) : ViewPaths[i] = path
    ELSE 0

\* d[k] = v
Put(d, k, v) == [x \in (DOMAIN d) \cup {k} |-> IF x = k THEN v ELSE d[x]]

\* d.get(k, default)
Get(d, k, default) == IF k \in DOMAIN d THEN d[k] ELSE default

----------------------------------------------------------------------------
(* map_views_to_metadata *)

\* the position v holds `view:` after nothing but spaces since a line start
\* at or after position from: ^\s*view: (re.MULTILINE)
ViewHeaderAt(t, v, from) ==
    /\ At(t, v) = "view"
    /\ At(t, v + 1) = ":"
    /\ \E p \in from..v :
          /\ p = 1 \/ t[p - 1] = "\n"
          /\ \A k \in p..(v - 1) : IsSpace(t[k])

\* view_name_pattern.findall(content) from position from on: the leftmost
\* match, then the matches after its end
RECURSIVE FindViewsFrom(_, _)
FindViewsFrom(t, from) ==
    LET starts == {v \in from..Len(t) :
                     /\ ViewHeaderAt(t, v, from)
                     /\ SkipSpace(t, v + 2) <= Len(t) /\ IsWord(t[SkipSpace(t, v + 2)])}
        v == CHOOSE a \in starts : \A b \in starts : a <= b
    IN  IF starts = {} THEN <<>>
        ELSE <<t[SkipSpace(t, v + 2)]>> \o FindViewsFrom(t, SkipSpace(t, v + 2) + 1)

FindViews(content) == FindViewsFrom(content, 1)

\* relative_dir.split(os.sep)[0] if relative_dir != "." else "(root)"
FolderOf(path) == IF path.dir = <<>> THEN "(root)" ELSE path.dir[1]

\* mutant: only the first name found in a file is registered
RegisterAll_first_only(view_metadata_map, found_views, entry) ==
    IF found_views = <<>> THEN view_metadata_map
    ELSE Put(view_metadata_map, Head(found_views), entry)

\* for view_name in found_views: view_metadata_map[view_name] = {...}
RECURSIVE RegisterAll(_, _, _)
RegisterAll(view_metadata_map, found_views, entry) ==
    IF found_views = <<>> THEN view_metadata_map
    ELSE RegisterAll(Put(view_metadata_map, Head(found_views), entry),
                     Tail(found_views), entry)

\* the body of the loop over the files for the file at position i
MapOneView(tr, i, acc) ==
    LET f == tr.views[i]
        path == ViewPaths[i]
    IN  IF ~Listed(f) \/ ~EndsWith(path.file, ".view.lkml") THEN acc
        ELSE IF ~ReadableAtScan(f) THEN acc
        ELSE LET matches == FindViews(Read(f))
                 found_views ==
                     IF matches = <<>> THEN <<FileStem(path.file)>> ELSE matches
             IN  [view_metadata_map |->
                     RegisterAll(acc.view_metadata_map, found_views,
                                 [folder |-> FolderOf(path), path |-> path]),
                  files_with_multiple_views |->
                     IF Len(matches) > 1
                     THEN Append(acc.files_with_multiple_views, path)
                     ELSE acc.files_with_multiple_views]

RECURSIVE MapViewsFrom(_, _, _)
MapViewsFrom(tr, i, acc) ==
    IF i > Len(ViewPaths) THEN acc
    ELSE MapViewsFrom(tr, i + 1, MapOneView(tr, i, acc))

map_views_to_metadata(tr) ==
    IF ~tr.views_dir
    THEN [view_metadata_map |-> <<>>, files_with_multiple_views |-> <<>>]
    ELSE MapViewsFrom(tr, 1,
            [view_metadata_map |-> <<>>, files_with_multiple_views |-> <<>>])

----------------------------------------------------------------------------
(* Substring and pattern tests of the analysis *)

\* the word run w ends with s / starts with s; the vocabulary of the texts
\* holds no longer word ending (starting) with one of the tokens tested
WordEndsWith(w, s) == w = s

WordStartsWith(w, s) == w = s

\* the word runs of the vocabulary made of digits only
DigitWords == {"0", "1", "2", "3", "4", "5", "6", "7", "8", "9"}

\* (token + ":") in body, for "description:" and "relationship:"
HasToken(body, token) ==
    \E i \in 1..Len(body) : WordEndsWith(body[i], token) /\ At(body, i + 1) = ":"

\* "primary_key: yes" in body
HasPrimaryKeyYes(body) ==
    \E i \in 1..Len(body) :
        /\ WordEndsWith(body[i], "primary_key")
        /\ At(body, i + 1) = ":"
        /\ At(body, i + 2) = " "
        /\ i + 3 <= Len(body) /\ WordStartsWith(body[i + 3], "yes")

\* re.search(r"\b(?:from|view_name)\s*:\s*([a-zA-Z0-9_]+)\b", body): the
\* position of group(1), 0 when there is no match
OverrideAt(body, i) ==
    LET c == SkipSpace(body, i + 1)
        n == SkipSpace(body, c + 1)
    IN  IF /\ At(body, i) \in {"from", "view_name"}
           /\ At(body, c) = ":"
           /\ n <= Len(body) /\ IsWord(body[n])
        THEN n ELSE 0

\* parse_view_override of list_used_views.py, the same search inline in app.py:
\* the name found, or None
parse_view_override(body) ==
    LET hits == {i \in 1..Len(body) : OverrideAt(body, i) # 0}
    IN  IF hits = {} THEN None
        ELSE [tag |-> "str",
              value |-> body[OverrideAt(body, CHOOSE i \in hits : \A k \in hits : i <= k)]]

\* match.group(1) if match else default
NameOr(match, default) == IF match = None THEN default ELSE match.value

\* sql_on:\s*(.+?)\s*;; (re.DOTALL) tried at position i: the span of group(1),
\* [from, to], from = 0 when the pattern does not match at i.  \s* is greedy
\* and gives spaces back to the group only when needed; the group is the
\* shortest that ";;" (after spaces) follows.
SqlOnAt(t, i) ==
    LET p == i + 2
        q == SkipSpace(t, p)
        Ends(gs) ==
            {e \in (gs + 1)..(Len(t) + 1) :
                LET r == SkipSpace(t, e) IN At(t, r) = ";" /\ At(t, r + 1) = ";"}
        starts == {gs \in p..q : Ends(gs) # {}}
    IN  IF ~(WordEndsWith(At(t, i), "sql_on") /\ At(t, i + 1) = ":") \/ starts = {}
        THEN [from |-> 0, to |-> 0]
        ELSE LET gs == CHOOSE a \in starts : \A b \in starts : a >= b
                 e == CHOOSE a \in Ends(gs) : \A b \in Ends(gs) : a <= b
             IN  [from |-> gs, to |-> e - 1]

\* re.search(r"sql_on:\s*(.+?)\s*;;", body, re.DOTALL): the leftmost match
SqlOn(body) ==
    LET hits == {i \in 1..Len(body) : SqlOnAt(body, i).from # 0}
    IN  IF hits = {} THEN [from |-> 0, to |-> 0]
        ELSE SqlOnAt(body, CHOOSE i \in hits : \A k \in hits : i <= k)

\* mutant: no space is allowed between the name and "("
HasFunctionCall_adjacent(t, from, to) ==
    \E k \in from..to :
        /\ IsWord(t[k]) /\ t[k] \notin DigitWords
        /\ k + 1 <= to /\ t[k + 1] = "("

\* re.search(r"[a-zA-Z_][a-zA-Z0-9_]*\s*\(", group): a word run holding a
\* letter or "_", then spaces, then "(", all inside the group
HasFunctionCall(t, from, to) ==
    \E k \in from..to :
        /\ IsWord(t[k]) /\ t[k] \notin DigitWords
        /\ LET r == SkipSpace(t, k + 1) IN r <= to /\ t[r] = "("

\* mutant: any sql_on counts as one that calls a function
JoinUsesSqlFunction_any_sql_on(body) == SqlOn(body).from # 0

\* sql_on and re.search(..., sql_on.group(1))
JoinUsesSqlFunction(body) ==
    LET g == SqlOn(body) IN g.from # 0 /\ HasFunctionCall(body, g.from, g.to)

----------------------------------------------------------------------------
(* get_view_description_coverage and its lru_cache, _has_primary_key *)

RECURSIVE Gcd(_, _)
Gcd(a, b) == IF b = 0 THEN a ELSE Gcd(b, a % b)

\* a float that is the quotient of two small naturals: two quotients are the
\* same float exactly when their reduced fractions are the same
Float(a, b) == [tag |-> "float", num |-> a \div Gcd(a, b), den |-> b \div Gcd(a, b)]

\* the number of blocks whose body holds "description:"
Described(fields) ==
    Cardinality({i \in 1..Len(fields) : HasToken(fields[i].body, "description")})

\* mutant: no field block gives 0.0
CoverageValue_zero_when_empty(described, total) ==
    IF total = 0 THEN Float(0, 1) ELSE Float(described, total)

\* if total == 0: return 1.0 / return described / total
CoverageValue(described, total) ==
    IF total = 0 THEN Float(1, 1) ELSE Float(described, total)

\* the file of a path of views/
ViewFileAt(tr, path) == IF ViewIndex(path) = 0 THEN Absent ELSE tr.views[ViewIndex(path)]

\* the function body; opened says whether open(view_path) was called
CoverageCompute(tr, view_path) ==
    IF view_path = None \/ ~ExistsLater(ViewFileAt(tr, view_path))
    THEN [value |-> None, opened |-> FALSE]
    ELSE IF ~ReadableLater(ViewFileAt(tr, view_path))
    THEN [value |-> None, opened |-> TRUE]
    ELSE LET uncommented == strip_lookml_comments(Read(ViewFileAt(tr, view_path)))
             dims == extract_named_blocks(uncommented, "dimension")
             measures == extract_named_blocks(uncommented, "measure")
             total == Len(dims) + Len(measures)
         IN  [value |-> CoverageValue(Described(dims \o measures), total),
              opened |-> TRUE]

\* mutant: the cache is left as it is
cache_clear_keeps(c) == c

\* get_view_description_coverage.cache_clear()
cache_clear(c) == <<>>

\* a miss: the value r of the function body is stored and returned
Memoize(view_path, memo, r) ==
    [value |-> r.value,
     cache |-> Put(memo.cache, view_path, r.value),
     reads |-> IF r.opened
               THEN Put(memo.reads, view_path, Get(memo.reads, view_path, 0) + 1)
               ELSE memo.reads]

\* the memoized call: memo is [cache |-> the lru_cache, reads |-> how often the
\* function opened each path]
get_view_description_coverage(tr, view_path, memo) ==
    IF view_path \in DOMAIN memo.cache
    THEN [value |-> memo.cache[view_path], cache |-> memo.cache, reads |-> memo.reads]
    ELSE Memoize(view_path, memo, CoverageCompute(tr, view_path))

has_primary_key(view_content) ==
    LET dimensions == extract_named_blocks(strip_lookml_comments(view_content), "dimension")
    IN  \E i \in 1..Len(dimensions) : HasPrimaryKeyYes(dimensions[i].body)

----------------------------------------------------------------------------
(* get_view_extensions *)

\* v.strip()
RECURSIVE Strip(_)
Strip(t) ==
    IF t = <<>> THEN t
    ELSE IF IsSpace(Head(t)) THEN Strip(Tail(t))
    ELSE IF IsSpace(t[Len(t)]) THEN Strip(SubSeq(t, 1, Len(t) - 1))
    ELSE t

\* " ".join([v.strip() for v in group.split(",") if v.strip()]) for the
\* group t[from..to]
RECURSIVE JoinStripped(_, _, _, _)
JoinStripped(t, from, to, out) ==
    IF from > to + 1 THEN out
    ELSE LET commas == {k \in from..to : t[k] = ","}
             stop == IF commas = {} THEN to + 1
                     ELSE CHOOSE k \in commas : \A m \in commas : k <= m
             v == Strip(SubSeq(t, from, stop - 1))
             out2 == IF v = <<>> THEN out
                     ELSE IF out = <<>> THEN v
                     ELSE out \o <<" ">> \o v
         IN  JoinStripped(t, stop + 1, to, out2)

\* re.search(r"\bextends\s*:\s*\[([^\]]*)\]", body) tried at position i: the
\* span of group(1), from = 0 when there is no match at i
ExtendsAt(body, i) ==
    LET c == SkipSpace(body, i + 1)
        b == SkipSpace(body, c + 1)
        closes == {e \in (b + 1)..Len(body) : body[e] = "]"}
    IN  IF At(body, i) = "extends" /\ At(body, c) = ":" /\ At(body, b) = "["
           /\ closes # {}
        THEN [from |-> b + 1, to |-> (CHOOSE e \in closes : \A k \in closes : e <= k) - 1]
        ELSE [from |-> 0, to |-> 0]

\* the value stored for one view block
ExtendsOf(body) ==
    LET hits == {i \in 1..Len(body) : ExtendsAt(body, i).from # 0}
    IN  IF hits = {} THEN <<>>
        ELSE LET g == ExtendsAt(body, CHOOSE i \in hits : \A k \in hits : i <= k)
             IN  JoinStripped(body, g.from, g.to, <<>>)

RECURSIVE ExtendBlocks(_, _)
ExtendBlocks(extensions, view_blocks) ==
    IF view_blocks = <<>> THEN extensions
    ELSE ExtendBlocks(
            Put(extensions, Head(view_blocks).name, ExtendsOf(Head(view_blocks).body)),
            Tail(view_blocks))

RECURSIVE ExtensionsFrom(_, _, _)
ExtensionsFrom(tr, i, extensions) ==
    IF i > Len(ViewPaths) THEN extensions
    ELSE LET f == tr.views[i]
         IN  IF ~Listed(f) \/ ~EndsWith(ViewPaths[i].file, ".view.lkml")
                \/ ~ReadableAtScan(f)
             THEN ExtensionsFrom(tr, i + 1, extensions)
             ELSE ExtensionsFrom(tr, i + 1,
                    ExtendBlocks(extensions,
                        extract_named_blocks(strip_lookml_comments(Read(f)), "view")))

get_view_extensions(tr) ==
    IF ~tr.views_dir THEN <<>> ELSE ExtensionsFrom(tr, 1, <<>>)

----------------------------------------------------------------------------
(* analyze_repo *)

\* one row of the DataFrame
Row(model_path, explore_name, role, view_name, meta, coverage, view_extensions) ==
    [model_path |-> model_path, explore |-> explore_name, role |-> role,
     view_name |-> view_name, folder |-> Get(meta, "folder", "Unknown"),
     coverage |-> coverage, extends_on |-> Get(view_extensions, view_name, <<>>)]

\* mutant: a join whose view has no registered path adds nothing
NoPkAfterJoin_resolved_only(tr, views_no_pk, join_view_name, path) ==
    IF path # None /\ ~(ReadableLater(ViewFileAt(tr, path))
                         /\ has_primary_key(Read(ViewFileAt(tr, path))))
    THEN views_no_pk \cup {join_view_name}
    ELSE views_no_pk

\* if path := join_meta.get("path") ... elif join_view_name: the names the
\* join adds to views_no_pk
NoPkAfterJoin(tr, views_no_pk, join_view_name, path) ==
    IF path # None
    THEN IF ReadableLater(ViewFileAt(tr, path))
         THEN IF ~has_primary_key(Read(ViewFileAt(tr, path)))
              THEN views_no_pk \cup {join_view_name}
              ELSE views_no_pk
         ELSE views_no_pk \cup {join_view_name}
    ELSE IF join_view_name # ""
    THEN views_no_pk \cup {join_view_name}
    ELSE views_no_pk

\* the body of `for j in joins` once the join's view is looked up; cov is
\* what the coverage call of its rows.append returns
JoinRow(tr, view_extensions, model_path, exp, j, join_view_name, join_meta, cov, acc) ==
    [acc EXCEPT
        !.joins_desc = IF HasToken(j.body, "description") THEN @ + 1 ELSE @,
        !.joins_no_rel = IF ~HasToken(j.body, "relationship")
                         THEN @ \cup {<<j.name, exp.name>>} ELSE @,
        !.joins_sql_func = IF JoinUsesSqlFunction(j.body)
                           THEN @ \cup {<<j.name, exp.name>>} ELSE @,
        !.views_no_pk = NoPkAfterJoin(tr, @, join_view_name,
                                      Get(join_meta, "path", None)),
        !.rows = Append(@, Row(model_path, exp.name, "join", join_view_name,
                               join_meta, cov.value, view_extensions)),
        !.cache = cov.cache,
        !.reads = cov.reads]

\* join_meta = view_metadata.get(join_view_name, {}) and the rest of the body
JoinLookup(tr, view_metadata, view_extensions, model_path, exp, j, join_view_name, acc) ==
    JoinRow(tr, view_extensions, model_path, exp, j, join_view_name,
            Get(view_metadata, join_view_name, <<>>),
            get_view_description_coverage(tr,
                Get(Get(view_metadata, join_view_name, <<>>), "path", None),
                [cache |-> acc.cache, reads |-> acc.reads]),
            acc)

\* the body of `for j in joins`
ProcessJoin(tr, view_metadata, view_extensions, model_path, exp, j, acc) ==
    JoinLookup(tr, view_metadata, view_extensions, model_path, exp, j,
               NameOr(parse_view_override(j.body), j.name), acc)

RECURSIVE JoinsFrom(_, _, _, _, _, _, _)
JoinsFrom(tr, view_metadata, view_extensions, model_path, exp, joins, acc) ==
    IF joins = <<>> THEN acc
    ELSE JoinsFrom(tr, view_metadata, view_extensions, model_path, exp, Tail(joins),
            ProcessJoin(tr, view_metadata, view_extensions, model_path, exp,
                        Head(joins), acc))

\* the body of `for exp in explores` once the primary view is looked up:
\* the primary row, then the joins; cov is what the coverage call of its
\* rows.append returns
ExploreRow(tr, view_metadata, view_extensions, model_path, exp, primary_view_name, meta, cov, joins, acc) ==
    JoinsFrom(tr, view_metadata, view_extensions, model_path, exp, joins,
        [acc EXCEPT
            !.explores_desc = IF HasToken(exp.body, "description") THEN @ + 1 ELSE @,
            !.rows = Append(@, Row(model_path, exp.name, "primary", primary_view_name,
                                   meta, cov.value, view_extensions)),
            !.cache = cov.cache,
            !.reads = cov.reads,
            !.joins_total = @ + Len(joins)])

\* meta = view_metadata.get(primary_view_name, {}) and the rest of the body
ExploreLookup(tr, view_metadata, view_extensions, model_path, exp, primary_view_name, acc) ==
    ExploreRow(tr, view_metadata, view_extensions, model_path, exp, primary_view_name,
               Get(view_metadata, primary_view_name, <<>>),
               get_view_description_coverage(tr,
                   Get(Get(view_metadata, primary_view_name, <<>>), "path", None),
                   [cache |-> acc.cache, reads |-> acc.reads]),
               extract_named_blocks(exp.body, "join"),
               acc)

\* the body of `for exp in explores`
ProcessExplore(tr, view_metadata, view_extensions, model_path, exp, acc) ==
    ExploreLookup(tr, view_metadata, view_extensions, model_path, exp,
                  NameOr(parse_view_override(exp.body), exp.name), acc)

RECURSIVE ExploresFrom(_, _, _, _, _, _)
ExploresFrom(tr, view_metadata, view_extensions, model_path, explores, acc) ==
    IF explores = <<>> THEN acc
    ELSE ExploresFrom(tr, view_metadata, view_extensions, model_path, Tail(explores),
            ProcessExplore(tr, view_metadata, view_extensions, model_path,
                           Head(explores), acc))

\* model_files: the *.model.lkml files os.walk lists, as positions of ModelPaths
model_files(tr) ==
    SelectSeq([i \in 1..Len(ModelPaths) |-> i],
              LAMBDA i : Listed(tr.models[i]) /\ EndsWith(ModelPaths[i].file, ".model.lkml"))

\* mutant: the blocks found are not added to the total
ModelExplores_uncounted(tr, view_metadata, view_extensions, i, explores, acc) ==
    ExploresFrom(tr, view_metadata, view_extensions, ModelPaths[i], explores, acc)

\* project_stats["explores"] += len(explores); for exp in explores
ModelExplores(tr, view_metadata, view_extensions, i, explores, acc) ==
    ExploresFrom(tr, view_metadata, view_extensions, ModelPaths[i], explores,
                 [acc EXCEPT !.explores_total = @ + Len(explores)])

\* mutant: a model file that cannot be read costs the rows collected so far
ProcessModel_failure_drops_rows(tr, view_metadata, view_extensions, i, acc) ==
    IF ~ReadableAtScan(tr.models[i])
    THEN [acc EXCEPT !.rows = <<>>,
                     !.st_log = Append(@, [kind |-> "warning", path |-> ModelPaths[i]])]
    ELSE ModelExplores(tr, view_metadata, view_extensions, i,
            extract_named_blocks(strip_lookml_comments(Read(tr.models[i])), "explore"),
            acc)

\* the body of `for model_path in model_files`
ProcessModel(tr, view_metadata, view_extensions, i, acc) ==
    IF ~ReadableAtScan(tr.models[i])
    THEN [acc EXCEPT !.st_log = Append(@, [kind |-> "warning", path |-> ModelPaths[i]])]
    ELSE ModelExplores(tr, view_metadata, view_extensions, i,
            extract_named_blocks(strip_lookml_comments(Read(tr.models[i])), "explore"),
            acc)

RECURSIVE ModelsFrom(_, _, _, _, _)
ModelsFrom(tr, view_metadata, view_extensions, files, acc) ==
    IF files = <<>> THEN acc
    ELSE ModelsFrom(tr, view_metadata, view_extensions, Tail(files),
            ProcessModel(tr, view_metadata, view_extensions, Head(files), acc))

\* if not rows: return None, {} / return df, {...}: what the run returns for the rows and sets collected, with
\* the cache, the opens and the messages it leaves
ReturnValue(tr, registry, acc) ==
    IF acc.rows = <<>>
    THEN [df |-> None, summary |-> <<>>, cache |-> acc.cache, reads |-> acc.reads,
          st_log |-> acc.st_log]
    ELSE [df |-> acc.rows,
          summary |->
            [df |-> acc.rows,
             files_with_multiple_views |-> registry.files_with_multiple_views,
             views_without_pk |-> acc.views_no_pk,
             joins_without_relationship |-> acc.joins_no_rel,
             joins_with_sql_on_functions |-> acc.joins_sql_func,
             project_stats |->
                [models |-> Len(model_files(tr)),
                 views |-> Cardinality(DOMAIN registry.view_metadata_map),
                 explores |-> acc.explores_total,
                 joins |-> acc.joins_total],
             description_stats |->
                [explores_with_desc |-> acc.explores_desc,
                 total_explores |-> acc.explores_total,
                 joins_with_desc |-> acc.joins_desc,
                 total_joins |-> acc.joins_total]],
          cache |-> acc.cache, reads |-> acc.reads, st_log |-> acc.st_log]

\* the run once views/ is scanned: cache_clear(), the loop over the model
\* files, the return
AfterScans(tr, old_cache, registry, view_extensions) ==
    ReturnValue(tr, registry,
        ModelsFrom(tr, registry.view_metadata_map, view_extensions, model_files(tr),
            [rows |-> <<>>, views_no_pk |-> {}, joins_no_rel |-> {},
             joins_sql_func |-> {}, explores_total |-> 0,
             explores_desc |-> 0, joins_total |-> 0, joins_desc |-> 0,
             cache |-> cache_clear(old_cache), reads |-> <<>>,
             st_log |-> <<>>]))

\* mutant: a missing models directory ends the run without a message
analyze_repo_silent(tr, old_cache) ==
    IF ~tr.models_dir
    THEN [df |-> None, summary |-> <<>>, cache |-> old_cache, reads |-> <<>>,
          st_log |-> <<>>]
    ELSE AfterScans(tr, old_cache, map_views_to_metadata(tr), get_view_extensions(tr))

\* analyze_repo(repo_path) on the tree tr with the lru_cache as it stands:
\* [df, summary] returned, the cache afterwards, the messages shown with
\* st.error / st.warning, and how often coverage opened each path
analyze_repo(tr, old_cache) ==
    IF ~tr.models_dir
    THEN [df |-> None, summary |-> <<>>, cache |-> old_cache, reads |-> <<>>,
          st_log |-> <<[kind |-> "error", path |-> None]>>]
    ELSE AfterScans(tr, old_cache, map_views_to_metadata(tr), get_view_extensions(tr))

----------------------------------------------------------------------------
(* generate_assessment *)

\* the word runs of the vocabulary that do not match ^[a-z0-9_]+$
NonSnakeWords == {"UPPER", "TABLE", "Customer_Orders", "Order_Items"}

\* re.match(r"^[a-z0-9_]+$", v)
IsSnakeCase(v) == v \notin NonSnakeWords

\* df[df["View Folder"] == "Unknown"]["View Name"].unique(), as a set
unknown_views(rows) ==
    {rows[i].view_name : i \in {k \in 1..Len(rows) : rows[k].folder = "Unknown"}}

\* mutant: the names with folder "Unknown" are not exempt
non_snake_views_unknown_too(rows) ==
    {v \in {rows[i].view_name : i \in 1..Len(rows)} : v # "" /\ ~IsSnakeCase(v)}

non_snake_views(rows) ==
    {v \in {rows[i].view_name : i \in 1..Len(rows)} :
        v # "" /\ ~IsSnakeCase(v) /\ v \notin unknown_views(rows)}

\* one finding; details holds the items its list enumerates
Finding(severity, title, details) ==
    [severity |-> severity, title |-> title, details |-> details]

\* assessments.append(...) if the condition holds
AppendIf(list, cond, finding) ==
    IF cond THEN Append(list, finding) ELSE list

\* the index of a severity in ("Critical", "Recommendation", "Positive")
SeverityRank(sev) ==
    CASE sev = "Critical" -> 0 [] sev = "Recommendation" -> 1 [] sev = "Positive" -> 2

\* mutant: the Positive findings come first
SortBySeverity_positive_first(list) ==
    SelectSeq(list, LAMBDA a : SeverityRank(a.severity) = 2)
    \o SelectSeq(list, LAMBDA a : SeverityRank(a.severity) = 0)
    \o SelectSeq(list, LAMBDA a : SeverityRank(a.severity) = 1)

\* sorted(assessments, key=rank): Python's sort is stable
SortBySeverity(list) ==
    SelectSeq(list, LAMBDA a : SeverityRank(a.severity) = 0)
    \o SelectSeq(list, LAMBDA a : SeverityRank(a.severity) = 1)
    \o SelectSeq(list, LAMBDA a : SeverityRank(a.severity) = 2)

\* mutant: both Positive findings are appended whatever the negative sets hold
PositiveFindings_always(list, unknown, views_without_pk) ==
    Append(Append(list, Finding("Positive", "Good File Integrity", {})),
           Finding("Positive", "Correct Join Structure", {}))

\* the two tests under "Positive Findings" and their appends
PositiveFindings(list, unknown, views_without_pk) ==
    AppendIf(AppendIf(list, unknown = {},
                 Finding("Positive", "Good File Integrity", {})),
             views_without_pk = {},
             Finding("Positive", "Correct Join Structure", {}))

generate_assessment(sm) ==
    LET unknown == unknown_views(sm.df)
        non_snake == non_snake_views(sm.df)
        a1 == AppendIf(<<>>, unknown # {},
                Finding("Critical", "Missing View Files", unknown))
        a2 == AppendIf(a1, sm.views_without_pk # {},
                Finding("Critical", "Views Joined Without a Primary Key",
                        sm.views_without_pk))
        a3 == AppendIf(a2, sm.joins_with_sql_on_functions # {},
                Finding("Critical", "SQL Functions in Join Conditions",
                        sm.joins_with_sql_on_functions))
        a4 == AppendIf(a3, sm.joins_without_relationship # {},
                Finding("Recommendation", "Joins Missing Explicit Relationship",
                        sm.joins_without_relationship))
        a5 == AppendIf(a4, sm.files_with_multiple_views # <<>>,
                Finding("Recommendation", "Multiple Views Defined in a Single File",
                        {sm.files_with_multiple_views[i] :
                            i \in 1..Len(sm.files_with_multiple_views)}))
        a6 == AppendIf(a5, non_snake # {},
                Finding("Recommendation", "View Naming Convention", non_snake))
    IN  SortBySeverity(PositiveFindings(a6, unknown, sm.views_without_pk))

----------------------------------------------------------------------------
(* One analysis of a tree, then the assessment of its summary *)

\* the session has no analysis yet
NotRun == [df |-> None, summary |-> <<>>]

Init ==
    /\ tree \in Trees
    /\ cache = <<>>
    /\ cache_before = <<>>
    /\ reads = <<>>
    /\ returned = NotRun
    /\ st_log = <<>>
    /\ assessments = None
    /\ analyzed = FALSE
    /\ text = <<>> /\ keyword = "" /\ blocks = <<>> /\ blocks_luv = <<>>
    /\ called = FALSE /\ work = <<>> /\ found = {}

\* df, summary = analyze_repo(temp_dir); the page script starts over, its
\* list of assessments is not computed yet
Rerun(out) ==
    /\ returned' = [df |-> out.df, summary |-> out.summary]
    /\ cache' = out.cache
    /\ cache_before' = cache
    /\ reads' = out.reads
    /\ st_log' = out.st_log
    /\ assessments' = None
    /\ analyzed' = TRUE
    /\ UNCHANGED <<tree, blockVars>>

AnalyzeRepo == Rerun(analyze_repo(tree, cache))

\* if summary: assessments = generate_assessment(summary)
GenerateAssessment ==
    /\ analyzed
    /\ returned.summary # <<>>
    /\ assessments' = generate_assessment(returned.summary)
    /\ UNCHANGED <<tree, cache, cache_before, reads, returned, st_log, analyzed, blockVars>>

Next == AnalyzeRepo \/ GenerateAssessment

Spec == Init /\ [][Next]_vars

----------------------------------------------------------------------------
(* Runs of analyze_repo one after the other in one process, the files of   *)
(* views/ changing between them.                                           *)

\* what an edit may put at each path of views/
RunViewFiles ==
    << {Absent} \cup {[mode |-> "ok", content |-> c] :
                        c \in {"ViewCustomersPk", "ViewCustomersQuarter"}}
                \cup {[mode |-> "removed_later", content |-> "ViewCustomersPk"]},
       {Absent} \cup {[mode |-> "ok", content |-> c] :
                        c \in {"ViewOrdersNoFields", "ViewTwoHeaders"}},
       {Absent} >>

RunModels ==
    {<<[mode |-> "ok", content |-> c], Absent>> :
        c \in {"ModelOrdersCustomers", "ModelOverrides"}}

RunTrees ==
    {tr \in Trees :
        /\ tr.views_dir /\ tr.models_dir
        /\ tr.models \in RunModels
        /\ \A i \in 1..Len(ViewPaths) : tr.views[i] \in RunViewFiles[i]}

InitRuns ==
    /\ tree \in RunTrees
    /\ cache = <<>>
    /\ cache_before = <<>>
    /\ reads = <<>>
    /\ returned = NotRun
    /\ st_log = <<>>
    /\ assessments = None
    /\ analyzed = FALSE
    /\ text = <<>> /\ keyword = "" /\ blocks = <<>> /\ blocks_luv = <<>>
    /\ called = FALSE /\ work = <<>> /\ found = {}

\* between two runs a file of views/ is replaced, added or deleted; the
\* process, and with it the lru_cache, lives on
EditViewFile ==
    /\ \E i \in 1..Len(ViewPaths) : \E f \in RunViewFiles[i] :
          /\ f # tree.views[i]
          /\ tree' = [tree EXCEPT !.views[i] = f]
    /\ analyzed' = FALSE
    /\ UNCHANGED <<cache, cache_before, reads, returned, st_log, assessments, blockVars>>

NextRuns == AnalyzeRepo \/ EditViewFile

SpecRuns == InitRuns /\ [][NextRuns]_vars

----------------------------------------------------------------------------
(* The block extractor applied to bounded texts: one call on the input,    *)
(* then a caller that re-invokes it on every body it got back.             *)

MaxChunks == 6

Keywords == {"join", "explore"}

Chunks ==
    << <<"join", ":", " ", "a", " ", "{">>,
       <<"explore", ":", "b", "{">>,
       <<"{">>,
       <<"}">>,
       <<"join", " ", ":", "c", "\n">> >>

RECURSIVE Flatten(_)
Flatten(cs) == IF cs = <<>> THEN <<>> ELSE Chunks[Head(cs)] \o Flatten(Tail(cs))

Texts ==
    {Flatten(cs) : cs \in UNION {[1..n -> 1..Len(Chunks)] : n \in 0..MaxChunks}}

Bodies(bs) == [i \in 1..Len(bs) |-> bs[i].body]

BlockSet(bs) == {bs[i] : i \in 1..Len(bs)}

InitBlocks ==
    /\ text \in Texts
    /\ keyword \in Keywords
    /\ blocks = <<>>
    /\ blocks_luv = <<>>
    /\ called = FALSE
    /\ work = <<>>
    /\ found = {}
    /\ tree = [views_dir |-> FALSE, views |-> NoViews,
               models_dir |-> FALSE, models |-> NoModels]
    /\ cache = <<>>
    /\ cache_before = <<>>
    /\ reads = <<>>
    /\ returned = NotRun
    /\ st_log = <<>>
    /\ assessments = None
    /\ analyzed = FALSE

\* blocks = extract_named_blocks(text, keyword), by app.py's extractor and by
\* list_used_views.py's copy of it
ExtractCall ==
    /\ ~called
    /\ blocks' = extract_named_blocks(text, keyword)
    /\ blocks_luv' = extract_named_blocks_luv(text, keyword)
    /\ called' = TRUE
    /\ work' = Bodies(blocks')
    /\ found' = BlockSet(blocks')
    /\ UNCHANGED <<text, keyword, repoVars>>

\* the caller re-invokes the extractor on the next returned body
ReExtract ==
    /\ called
    /\ work # <<>>
    /\ LET bs == extract_named_blocks(Head(work), keyword)
       IN  /\ work' = Tail(work) \o Bodies(bs)
           /\ found' = found \cup BlockSet(bs)
    /\ UNCHANGED <<text, keyword, blocks, blocks_luv, called, repoVars>>

NextBlocks == ExtractCall \/ ReExtract

SpecBlocks == InitBlocks /\ [][NextBlocks]_vars

----------------------------------------------------------------------------
(* What the claims about the extractor speak of, stated by position and    *)
(* by counting, without the extractor's scan.                              *)

\* position i starts `kw : name {` (kw a whole word, spaces allowed between)
IsHeaderAt(t, i, kw, n, o) ==
    /\ i < n /\ n < o /\ o <= Len(t)
    /\ t[i] = kw /\ IsWord(t[n]) /\ t[o] = "{"
    /\ \E c \in (i + 1)..(n - 1) :
          /\ t[c] = ":"
          /\ \A k \in ((i + 1)..(n - 1)) \ {c} : IsSpace(t[k])
    /\ \A k \in (n + 1)..(o - 1) : IsSpace(t[k])

\* the occurrences of `kw : name {` in t, each as <<start, name position, "{" position>>
Occurrences(t, kw) ==
    {occ \in {i \in 1..Len(t) : t[i] = kw}
                \X {n \in 1..Len(t) : IsWord(t[n])}
                \X {o \in 1..Len(t) : t[o] = "{"} :
        IsHeaderAt(t, occ[1], kw, occ[2], occ[3])}

\* braces opened minus braces closed in t[from..to]
Depth(t, from, to) ==
    Cardinality({k \in from..to : t[k] = "{"}) - Cardinality({k \in from..to : t[k] = "}"})

\* the "}" at which the depth counted from the "{" at o first returns to zero (0: none)
ClosingBrace(t, o) ==
    LET cs == {c \in (o + 1)..Len(t) : t[c] = "}" /\ Depth(t, o, c) = 0}
    IN  IF cs = {} THEN 0 ELSE CHOOSE c \in cs : \A d \in cs : c <= d

ClosedOccurrences(t, kw) == {occ \in Occurrences(t, kw) : ClosingBrace(t, occ[3]) # 0}

\* occ lies inside the body of another closed occurrence of kw
IsNested(t, kw, occ) ==
    \E out \in ClosedOccurrences(t, kw) :
        out[3] < occ[1] /\ occ[3] < ClosingBrace(t, out[3])

\* the members of a set of occurrences in document order of their headers
RECURSIVE InDocumentOrder(_)
InDocumentOrder(occs) ==
    IF occs = {} THEN <<>>
    ELSE LET first == CHOOSE a \in occs : \A b \in occs : a[1] <= b[1]
         IN  <<first>> \o InDocumentOrder(occs \ {first})

BlockOf(t, occ) ==
    [name |-> t[occ[2]], body |-> SubSeq(t, occ[3] + 1, ClosingBrace(t, occ[3]) - 1)]

BlocksOf(t, occs) ==
    LET ord == InDocumentOrder(occs) IN [i \in 1..Len(ord) |-> BlockOf(t, ord[i])]

Balanced(t) ==
    /\ Depth(t, 1, Len(t)) = 0
    /\ \A k \in 1..Len(t) : Depth(t, 1, k) >= 0

\* C2: extract_named_blocks(text, keyword) returns, in document order of the
\* headers, one entry per occurrence of `keyword: name {` that has a closing
\* brace, its body the text strictly between the "{" and the "}" at which the
\* depth counted from that "{" first returns to zero; an occurrence with no
\* such "}" gives no entry.  Both copies of the extractor agree on it.
C2_BodiesAreBalancedSpans ==
    called =>
        /\ blocks = BlocksOf(text, ClosedOccurrences(text, keyword))
        /\ blocks_luv = BlocksOf(text, ClosedOccurrences(text, keyword))

\* a call that returned a block with braces in its body and dropped an
\* occurrence that is never closed
C2_Witness ==
    /\ called
    /\ \E i \in 1..Len(blocks) : \E k \in 1..Len(blocks[i].body) : blocks[i].body[k] = "{"
    /\ Cardinality(Occurrences(text, keyword)) > Len(blocks)

\* C3: for brace-balanced input, once the caller has re-extracted the keyword
\* from every returned body (recursively), every block of that keyword of the
\* input, at every nesting depth, is among the blocks recovered.
C3_RecursionRecoversAll ==
    (called /\ work = <<>> /\ Balanced(text)) =>
        \A occ \in ClosedOccurrences(text, keyword) : BlockOf(text, occ) \in found

\* a finished recursion over a balanced text that holds a block nested in a
\* block of the same keyword
C3_Witness ==
    /\ called /\ work = <<>> /\ Balanced(text)
    /\ \E occ \in ClosedOccurrences(text, keyword) : IsNested(text, keyword, occ)

\* C4: a single call extract_named_blocks(text, K) returns the top-level K
\* blocks only: a K block inside the body of another K block of the same
\* text is not among the entries of that call.
C4_SingleCallSkipsNested ==
    called =>
        blocks = BlocksOf(text, {occ \in ClosedOccurrences(text, keyword) :
                                    ~IsNested(text, keyword, occ)})

----------------------------------------------------------------------------
(* The analysis of a tree, counted from the files themselves *)

\* the registry of the tree as it stands
Registry == map_views_to_metadata(tree).view_metadata_map

\* the path the registry holds for a view name (None: not registered)
PathOf(view_name) == Get(Get(Registry, view_name, <<>>), "path", None)

\* the rows of the last run (none when it returned no DataFrame)
Rows == IF returned.df = None THEN <<>> ELSE returned.df

\* the findings with a title among the assessments
Findings(title) ==
    IF assessments = None THEN {}
    ELSE {assessments[i] : i \in {k \in 1..Len(assessments) : assessments[k].title = title}}

\* the files of a directory that are listed, as positions
ListedAt(files) == {i \in 1..Len(files) : Listed(files[i])}

\* the query roots and the joins of a text: every closed occurrence, at
\* every depth, in document order
RootsOf(t) == BlocksOf(t, ClosedOccurrences(t, "explore"))

JoinsOf(t) == BlocksOf(t, ClosedOccurrences(t, "join"))

RECURSIVE Concat(_)
Concat(seqs) == IF seqs = <<>> THEN <<>> ELSE Head(seqs) \o Concat(Tail(seqs))

\* the rows one root calls for: its primary row, then one per join block
KeysOfRoot(i, root) ==
    <<[model_path |-> ModelPaths[i], explore |-> root.name, role |-> "primary"]>>
    \o [k \in 1..Len(JoinsOf(root.body)) |->
            [model_path |-> ModelPaths[i], explore |-> root.name, role |-> "join"]]

\* the rows the model file at position i calls for
KeysOfModel(i) ==
    IF tree.models[i].mode # "ok" THEN <<>>
    ELSE LET roots == RootsOf(strip_lookml_comments(Read(tree.models[i])))
         IN  Concat([k \in 1..Len(roots) |-> KeysOfRoot(i, roots[k])])

ExpectedKeys == Concat([i \in 1..Len(ModelPaths) |-> KeysOfModel(i)])

RowKeys ==
    [i \in 1..Len(Rows) |->
        [model_path |-> Rows[i].model_path, explore |-> Rows[i].explore,
         role |-> Rows[i].role]]

\* C1 scenario: the only model file holds the one root orders with the one
\* join customers (relationship and plain sql_on), the only view file
\* declares customers alone, with a dimension marked as primary key, and
\* stays as it is during the run
ScenarioOrdersCustomers ==
    /\ tree.views_dir /\ tree.models_dir
    /\ \E m \in 1..Len(ModelPaths) :
          /\ ListedAt(tree.models) = {m}
          /\ tree.models[m] = [mode |-> "ok", content |-> "ModelOrdersCustomers"]
    /\ \E v \in 1..Len(ViewPaths) :
          /\ ListedAt(tree.views) = {v}
          /\ tree.views[v].mode = "ok"
          /\ FindViews(Read(tree.views[v])) = <<"customers">>
          /\ \E d \in ClosedOccurrences(Read(tree.views[v]), "dimension") :
                HasPrimaryKeyYes(BlockOf(Read(tree.views[v]), d).body)

\* C1: end to end on that scenario: exactly two rows, the primary row of
\* orders with folder Unknown and the join row of customers with the folder
\* of its file; the assessment holds the Critical "Missing View Files"
\* finding listing orders and none of the findings on primary keys, sql
\* functions and relationships.
C1_EndToEnd ==
    (analyzed /\ ScenarioOrdersCustomers) =>
        /\ returned.df # None
        /\ Len(returned.df) = 2
        /\ returned.df[1].role = "primary" /\ returned.df[1].view_name = "orders"
        /\ returned.df[1].folder = "Unknown"
        /\ returned.df[2].role = "join" /\ returned.df[2].view_name = "customers"
        /\ \E v \in ListedAt(tree.views) : returned.df[2].folder = FolderOf(ViewPaths[v])
        /\ returned.df[2].folder # "Unknown"
        /\ returned.summary # <<>>
        /\ assessments # None =>
              /\ \E a \in Findings("Missing View Files") :
                    a.severity = "Critical" /\ a.details = {"orders"}
              /\ Findings("Views Joined Without a Primary Key") = {}
              /\ Findings("SQL Functions in Join Conditions") = {}
              /\ Findings("Joins Missing Explicit Relationship") = {}

\* the scenario analyzed and assessed
C1_Witness == analyzed /\ ScenarioOrdersCustomers /\ assessments # None

\* C5: the rows of a run are, file by file and root by root, one primary row
\* per query root of a readable model file followed by one join row per join
\* block in that root, and nothing else; so the number of rows is the
\* explores total plus the joins total reported.
C5_RowsPerRootAndJoin ==
    analyzed =>
        /\ RowKeys = IF tree.models_dir THEN ExpectedKeys ELSE <<>>
        /\ returned.summary # <<>> =>
              Len(Rows) = returned.summary.project_stats.explores
                          + returned.summary.project_stats.joins

\* a run over two readable model files, with a root that holds two joins
\* and a root that holds none
C5_Witness ==
    /\ analyzed /\ returned.summary # <<>>
    /\ Cardinality({Rows[i].model_path : i \in 1..Len(Rows)}) = 2
    /\ \E i \in 1..(Len(Rows) - 2) :
          Rows[i].role = "primary" /\ Rows[i + 1].role = "join" /\ Rows[i + 2].role = "join"
    /\ Rows[Len(Rows)].role = "primary"

\* C6: every join row whose view name is not in the registry has folder
\* "Unknown" and its view name is in views_without_pk.
C6_UnresolvedJoin ==
    analyzed =>
        \A i \in 1..Len(Rows) :
            (Rows[i].role = "join" /\ Rows[i].view_name \notin DOMAIN Registry) =>
                /\ Rows[i].folder = "Unknown"
                /\ Rows[i].view_name \in returned.summary.views_without_pk

\* a run with a join whose view is not registered next to a join whose view is
C6_Witness ==
    /\ analyzed
    /\ \E i \in 1..Len(Rows) :
          Rows[i].role = "join" /\ Rows[i].view_name \notin DOMAIN Registry
    /\ \E i \in 1..Len(Rows) :
          Rows[i].role = "join" /\ Rows[i].view_name \in DOMAIN Registry

\* the view files map_views_to_metadata reads, as positions
ScannedViews ==
    {i \in 1..Len(ViewPaths) :
        tree.views_dir /\ tree.views[i].mode \in {"ok", "unreadable_later", "removed_later"}}

\* the header names of the view file at position i
Headers(i) == FindViews(Read(tree.views[i]))

\* the names the file at position i declares: its header names
Declares(i) == {Headers(i)[k] : k \in 1..Len(Headers(i))}

\* the first path segment under views/, or the root sentinel
FirstSegment(path) == IF Len(path.dir) = 0 THEN "(root)" ELSE Head(path.dir)

EntryOf(i) == [folder |-> FirstSegment(ViewPaths[i]), path |-> ViewPaths[i]]

MultipleDefinitions == map_views_to_metadata(tree).files_with_multiple_views

TimesListed(i) ==
    Cardinality({k \in 1..Len(MultipleDefinitions) : MultipleDefinitions[k] = ViewPaths[i]})

\* the part of C7 on the multiple-definitions list and on files with N > 1
\* headers
MultiHeaderFilesListedOnce ==
    \A i \in ScannedViews :
        /\ Len(Headers(i)) > 1 => (Declares(i) \subseteq DOMAIN Registry /\ TimesListed(i) = 1)
        /\ Len(Headers(i)) <= 1 => TimesListed(i) = 0

FieldsOf(t) ==
    BlocksOf(t, ClosedOccurrences(t, "dimension"))
    \o BlocksOf(t, ClosedOccurrences(t, "measure"))

\* the quotient described / total of a text, 1.0 for no field block
QuotientOf(t) ==
    IF Len(FieldsOf(t)) = 0 THEN Float(1, 1)
    ELSE Float(Cardinality({k \in 1..Len(FieldsOf(t)) :
                               HasToken(FieldsOf(t)[k].body, "description")}),
               Len(FieldsOf(t)))

\* what the coverage of a path is to be, from the file under it
ExpectedCoverage(path) ==
    IF path = None THEN None
    ELSE IF ViewFileAt(tree, path).mode # "ok" THEN None
    ELSE QuotientOf(strip_lookml_comments(Read(ViewFileAt(tree, path))))

InUnitRange(v) == v = None \/ (v.den > 0 /\ 0 <= v.num /\ v.num <= v.den)

\* C8: every value get_view_description_coverage returned in the run is None
\* for a null, missing or unreadable path, else 1.0 for a file without field
\* blocks, else described / total (1/4 for 4 fields with 1 described); it is
\* None or within [0, 1].
C8_CoverageValue ==
    analyzed =>
        /\ \A p \in DOMAIN cache :
              /\ cache[p] = ExpectedCoverage(p)
              /\ InUnitRange(cache[p])
              /\ (p # None /\ ViewFileAt(tree, p) = [mode |-> "ok", content |-> "ViewCustomersQuarter"])
                    => cache[p] = [tag |-> "float", num |-> 1, den |-> 4]
              /\ (p # None /\ ViewFileAt(tree, p) = [mode |-> "ok", content |-> "ViewOrdersNoFields"])
                    => cache[p] = [tag |-> "float", num |-> 1, den |-> 1]
        /\ \A i \in 1..Len(Rows) :
              Rows[i].coverage = ExpectedCoverage(PathOf(Rows[i].view_name))

\* a run that looked up a null path, a file gone after the scan, a file
\* without field blocks
C8_Witness ==
    /\ analyzed
    /\ None \in DOMAIN cache
    /\ \E p \in DOMAIN cache : p # None /\ ViewFileAt(tree, p).mode = "removed_later"
    /\ \E p \in DOMAIN cache : cache[p] = [tag |-> "float", num |-> 1, den |-> 1]

\* the paths the rows of the last run looked up
LookedUp == {PathOf(Rows[i].view_name) : i \in 1..Len(Rows)}

\* C9: after each run of a sequence with view files changing in between,
\* every coverage value in the run's rows is the one computed from the file
\* as it is in this run, the cache holds this run's lookups and values only,
\* and the function opened each path at most once in the run.
C9_FreshEachRun ==
    analyzed =>
        /\ \A i \in 1..Len(Rows) :
              Rows[i].coverage = CoverageCompute(tree, PathOf(Rows[i].view_name)).value
        /\ DOMAIN cache = LookedUp
        /\ \A p \in DOMAIN cache : cache[p] = CoverageCompute(tree, p).value
        /\ \A p \in DOMAIN reads : reads[p] <= 1

\* a run that found, for a path it looks up in more than one row, a value
\* memoized by an earlier run that differs from the one of this run
C9_Witness ==
    /\ analyzed
    /\ \E p \in DOMAIN cache_before \cap DOMAIN cache :
          /\ cache_before[p] # cache[p]
          /\ Cardinality({i \in 1..Len(Rows) : PathOf(Rows[i].view_name) = p}) > 1
          /\ p \in DOMAIN reads /\ reads[p] = 1

\* the run showed an error
ErrorShown == \E k \in 1..Len(st_log) : st_log[k].kind = "error"

\* models/ exists and no model file read holds a query root
NoRootsAnywhere == tree.models_dir /\ ExpectedKeys = <<>>

\* C10: without the models directory the run shows an error and returns no
\* result; with the directory and no root or join found anywhere it returns
\* the empty result and shows no error, so the two outcomes differ.
C10_FailureSurfaces ==
    analyzed =>
        /\ ~tree.models_dir =>
              (returned = [df |-> None, summary |-> <<>>] /\ ErrorShown)
        /\ NoRootsAnywhere =>
              (returned = [df |-> None, summary |-> <<>>] /\ ~ErrorShown)

\* a run over a models directory whose files are read and hold no root
C10_Witness ==
    /\ analyzed /\ NoRootsAnywhere
    /\ \E i \in 1..Len(ModelPaths) : tree.models[i].mode = "ok"

\* the files of a directory with those that no open() can read taken away
WithoutUnreadable(files) ==
    [i \in DOMAIN files |-> IF files[i].mode = "unreadable" THEN Absent ELSE files[i]]

\* the tree as it would be without its unreadable files
TreeWithoutUnreadable ==
    [tree EXCEPT !.views = WithoutUnreadable(@), !.models = WithoutUnreadable(@)]

HasUnreadable ==
    \/ \E i \in 1..Len(ModelPaths) : tree.models[i].mode = "unreadable"
    \/ \E i \in 1..Len(ViewPaths) : tree.views[i].mode = "unreadable"

\* the rows a run returns
RowsOf(out) == IF out.df = None THEN <<>> ELSE out.df

\* the model files the run could not read, and the paths it warned about
UnreadableModels == {i \in 1..Len(ModelPaths) : tree.models[i].mode = "unreadable"}

WarnedPaths ==
    {st_log[k].path : k \in {n \in 1..Len(st_log) : st_log[n].kind = "warning"}}

\* C11: with the models directory present, no unreadable file ends the run:
\* it shows no error and one warning per unreadable model file, its rows are
\* the rows of the same tree without the unreadable files (model files and
\* view files alike), no view name is registered with an unreadable file,
\* and a join whose registered view file cannot be read after the scans is
\* in views_without_pk with no coverage.
C11_ReadFailuresAreSkipped ==
    (analyzed /\ tree.models_dir) =>
        /\ ~ErrorShown
        /\ Len(st_log) = Cardinality(UnreadableModels)
        /\ WarnedPaths = {ModelPaths[i] : i \in UnreadableModels}
        /\ HasUnreadable => Rows = RowsOf(analyze_repo(TreeWithoutUnreadable, <<>>))
        /\ \A n \in DOMAIN Registry : ViewFileAt(tree, Registry[n].path).mode # "unreadable"
        /\ \A i \in 1..Len(Rows) :
              (/\ Rows[i].role = "join"
               /\ PathOf(Rows[i].view_name) # None
               /\ ViewFileAt(tree, PathOf(Rows[i].view_name)).mode # "ok") =>
                  /\ Rows[i].view_name \in returned.summary.views_without_pk
                  /\ Rows[i].coverage = None

\* a run that read a model file with rows, then met an unreadable one, over
\* an unreadable view file and a join target that could not be opened
\* after the scans
C11_Witness ==
    /\ analyzed /\ tree.models_dir
    /\ Rows # <<>>
    /\ tree.models[1].mode = "ok" /\ tree.models[2].mode = "unreadable"
    /\ \E i \in 1..Len(ViewPaths) : tree.views_dir /\ tree.views[i].mode = "unreadable"
    /\ \E i \in 1..Len(Rows) :
          /\ Rows[i].role = "join"
          /\ PathOf(Rows[i].view_name) # None
          /\ ViewFileAt(tree, PathOf(Rows[i].view_name)).mode = "unreadable_later"

\* the priority of a severity: Critical before Recommendation before Positive
Priority(severity) ==
    CASE severity = "Critical" -> 1
      [] severity = "Recommendation" -> 2
      [] severity = "Positive" -> 3
      [] OTHER -> 4

\* the place of a finding in the order generate_assessment appends them
AppendedAt(title) ==
    CASE title = "Missing View Files" -> 1
      [] title = "Views Joined Without a Primary Key" -> 2
      [] title = "SQL Functions in Join Conditions" -> 3
      [] title = "Joins Missing Explicit Relationship" -> 4
      [] title = "Multiple Views Defined in a Single File" -> 5
      [] title = "View Naming Convention" -> 6
      [] title = "Good File Integrity" -> 7
      [] title = "Correct Join Structure" -> 8
      [] OTHER -> 0

\* C12: in the list generate_assessment returns, every finding has one of
\* the three severities, no finding comes before one of higher priority
\* (Critical, then Recommendation, then Positive), and two findings of the
\* same severity stand in the order in which they were appended.
C12_SeverityOrder ==
    assessments # None =>
        /\ \A i \in 1..Len(assessments) : Priority(assessments[i].severity) <= 3
        /\ \A i \in 1..Len(assessments) : \A j \in (i + 1)..Len(assessments) :
              /\ Priority(assessments[i].severity) <= Priority(assessments[j].severity)
              /\ assessments[i].severity = assessments[j].severity =>
                    AppendedAt(assessments[i].title) < AppendedAt(assessments[j].title)

\* an assessment with findings of all three severities, two of them
\* Critical and two or more of them Recommendation
C12_Witness ==
    /\ assessments # None
    /\ {assessments[i].severity : i \in 1..Len(assessments)}
          = {"Critical", "Recommendation", "Positive"}
    /\ Cardinality({i \in 1..Len(assessments) : assessments[i].severity = "Critical"}) = 2
    /\ Cardinality({i \in 1..Len(assessments) :
                        assessments[i].severity = "Recommendation"}) >= 2

\* the names of the rows returned whose folder is "Unknown"
NamesWithUnknownFolder == {Rows[i].view_name : i \in {k \in 1..Len(Rows) : Rows[k].folder = "Unknown"}}

\* the titles among the assessments, and how often each occurs
Titles == {assessments[i].title : i \in 1..Len(assessments)}

TimesFound(title) == Cardinality({i \in 1..Len(assessments) : assessments[i].title = title})

\* C13: in the list generate_assessment returns, "Good File Integrity" is
\* present exactly when no row has folder "Unknown" and "Missing View Files"
\* exactly when some row has; "Correct Join Structure" is present exactly
\* when views_without_pk is empty and "Views Joined Without a Primary Key"
\* exactly when it is not; whatever the other findings are.  No category
\* has both its findings and no finding occurs twice.
C13_PositiveIffNegativeEmpty ==
    assessments # None =>
        /\ "Good File Integrity" \in Titles <=> NamesWithUnknownFolder = {}
        /\ "Missing View Files" \in Titles <=> NamesWithUnknownFolder # {}
        /\ "Correct Join Structure" \in Titles <=> returned.summary.views_without_pk = {}
        /\ "Views Joined Without a Primary Key" \in Titles
              <=> returned.summary.views_without_pk # {}
        /\ \A t \in Titles : TimesFound(t) = 1
        /\ \A i \in 1..Len(assessments) :
              assessments[i].severity = "Positive"
                <=> assessments[i].title \in {"Good File Integrity", "Correct Join Structure"}

\* an assessment that holds a Positive finding of one category next to the
\* negative finding of the other and to Recommendation findings
C13_Witness ==
    /\ assessments # None
    /\ "Good File Integrity" \in Titles
    /\ "Views Joined Without a Primary Key" \in Titles
    /\ \E i \in 1..Len(assessments) : assessments[i].severity = "Recommendation"

\* the names the naming-convention finding lists (none without the finding)
NamingFlagged ==
    UNION {assessments[i].details :
             i \in {k \in 1..Len(assessments) :
                       assessments[k].title = "View Naming Convention"}}

\* the names of the rows, and the folders the rows give for a name
RowNames == {Rows[i].view_name : i \in 1..Len(Rows)}

FoldersOf(name) == {Rows[i].folder : i \in {k \in 1..Len(Rows) : Rows[k].view_name = name}}

\* the names in use that hold a capital letter
CapitalNames == {"Customer_Orders", "Order_Items"}

\* C14: the naming-convention finding lists exactly the view names of the
\* rows that do not match ^[a-z0-9_]+$ and whose folder is not "Unknown",
\* and it is present exactly when there is such a name; Customer_Orders is
\* listed when its folder resolved, customer_orders never, and no name
\* whose folder is "Unknown" is listed, whatever its casing.
C14_NamingCheck ==
    assessments # None =>
        /\ NamingFlagged = {v \in RowNames : v \in CapitalNames /\ "Unknown" \notin FoldersOf(v)}
        /\ "View Naming Convention" \in Titles <=> NamingFlagged # {}
        /\ ("Customer_Orders" \in RowNames /\ "Unknown" \notin FoldersOf("Customer_Orders"))
              => "Customer_Orders" \in NamingFlagged
        /\ "customer_orders" \notin NamingFlagged
        /\ \A i \in 1..Len(Rows) :
              Rows[i].folder = "Unknown" => Rows[i].view_name \notin NamingFlagged
        /\ \A v \in RowNames : Cardinality(FoldersOf(v)) = 1

\* an assessment of rows that hold Customer_Orders with a resolved folder,
\* customer_orders, and a name with capitals whose folder is "Unknown"
C14_Witness ==
    /\ assessments # None
    /\ "Customer_Orders" \in NamingFlagged
    /\ "customer_orders" \in RowNames
    /\ \E i \in 1..Len(Rows) :
          Rows[i].folder = "Unknown" /\ Rows[i].view_name \in CapitalNames

\* the join blocks of the model files read, each with the root it is
\* extracted from
JoinsIn(root, joins) ==
    {[join |-> joins[n].name, explore |-> root.name, body |-> joins[n].body] :
        n \in 1..Len(joins)}

JoinsOfModel(i) ==
    IF ~tree.models_dir \/ tree.models[i].mode # "ok" THEN {}
    ELSE LET roots == RootsOf(strip_lookml_comments(Read(tree.models[i])))
         IN  UNION {JoinsIn(roots[k], JoinsOf(roots[k].body)) : k \in 1..Len(roots)}

AllJoins == UNION {JoinsOfModel(i) : i \in 1..Len(ModelPaths)}

\* the first `sql_on: ... ;;` clause of a join body: the positions from the
\* first non-blank after the colon up to the first ";;" after it (none
\* without such a clause)
ClauseOf(body) ==
    LET heads == {i \in 1..Len(body) :
                    /\ body[i] = "sql_on" /\ At(body, i + 1) = ":"
                    /\ \E e \in (i + 3)..Len(body) : body[e] = ";" /\ At(body, e + 1) = ";"}
        h == CHOOSE i \in heads : \A k \in heads : i <= k
        first == CHOOSE q \in (h + 2)..(Len(body) + 1) :
                    /\ ~IsSpace(At(body, q))
                    /\ \A k \in (h + 2)..(q - 1) : IsSpace(body[k])
        ends == {e \in (first + 1)..Len(body) : body[e] = ";" /\ At(body, e + 1) = ";"}
    IN  IF heads = {} \/ ends = {} THEN {}
        ELSE first..((CHOOSE e \in ends : \A k \in ends : e <= k) - 1)

\* an identifier: a word run that is not made of digits only
IsIdentifier(l) == IsWord(l) /\ l \notin DigitWords

\* the clause holds an identifier with "(" right after it
NameThenParen(body) ==
    \E k \in ClauseOf(body) :
        IsIdentifier(body[k]) /\ (k + 1) \in ClauseOf(body) /\ body[k + 1] = "("

\* the clause holds an identifier, then blanks or line breaks or nothing,
\* then "("
NameSpacesParen(body) ==
    \E k \in ClauseOf(body) : \E r \in ClauseOf(body) :
        /\ IsIdentifier(body[k]) /\ k < r /\ body[r] = "("
        /\ \A m \in (k + 1)..(r - 1) : IsSpace(body[m])

\* the joins the run reported for functions in sql_on
SqlFunctionJoins ==
    IF returned.summary = <<>> THEN {} ELSE returned.summary.joins_with_sql_on_functions

\* of the joins given, the reported ones are those whose clause holds an
\* identifier, white space or nothing, then "("
ReportedAreNameBeforeParen(joins) ==
    /\ SqlFunctionJoins
          = {<<j.join, j.explore>> : j \in {x \in joins : NameSpacesParen(x.body)}}
    /\ \A j \in joins :
          (ClauseOf(j.body) # {} /\ \A k \in ClauseOf(j.body) : j.body[k] # "(")
              => <<j.join, j.explore>> \notin SqlFunctionJoins
    /\ \A j \in joins :
          NameThenParen(j.body) => <<j.join, j.explore>> \in SqlFunctionJoins

\* C15 as stated: a join is in the sql-function set exactly when its sql_on
\* clause holds an identifier immediately followed by "(".
C15_NameImmediatelyBeforeParen ==
    analyzed =>
        SqlFunctionJoins = {<<j.join, j.explore>> : j \in {x \in AllJoins : NameThenParen(x.body)}}

\* C15 amended: a join is in the sql-function set exactly when its sql_on
\* clause holds an identifier followed, with nothing or only white space in
\* between, by "("; so a clause `a.id = b.id` is never reported and a clause
\* `UPPER(a.id) = b.id` always is.
C15_NameBeforeParen ==
    analyzed => ReportedAreNameBeforeParen(AllJoins)

\* a run over a join with a plain condition, a join with `UPPER(` and a join
\* with a name, a blank and "(" in its sql_on clause
C15_Witness ==
    /\ analyzed
    /\ \E j \in AllJoins :
          ClauseOf(j.body) # {} /\ \A k \in ClauseOf(j.body) : j.body[k] # "("
    /\ \E j \in AllJoins : NameThenParen(j.body)
    /\ \E j \in AllJoins : NameSpacesParen(j.body) /\ ~NameThenParen(j.body)

\* the query roots of the model files read, in the order of their rows
RootsOfModel(i) ==
    IF ~tree.models_dir \/ tree.models[i].mode # "ok" THEN <<>>
    ELSE RootsOf(strip_lookml_comments(Read(tree.models[i])))

AllRoots == Concat([i \in 1..Len(ModelPaths) |-> RootsOfModel(i)])

PrimaryRows == SelectSeq(Rows, LAMBDA r : r.role = "primary")

\* position i of a body starts `from: X` or `view_name: X`
IsOverrideAt(body, i) ==
    /\ body[i] \in {"from", "view_name"}
    /\ \E c \in (i + 1)..Len(body) : \E n \in (c + 1)..Len(body) :
          /\ body[c] = ":" /\ IsWord(body[n])
          /\ \A k \in ((i + 1)..(n - 1)) \ {c} : IsSpace(body[k])

\* position i of a root's body lies inside one of its join blocks
InsideJoin(body, i) ==
    \E occ \in ClosedOccurrences(body, "join") :
        occ[3] < i /\ i < ClosingBrace(body, occ[3])

\* the root carries an override of its own, outside its join blocks
HasOwnOverride(body) ==
    \E i \in 1..Len(body) : IsOverrideAt(body, i) /\ ~InsideJoin(body, i)

\* C16: the primary row of a query root that carries no `from:` or
\* `view_name:` of its own (outside its join blocks) names the root itself,
\* whatever overrides its join blocks carry.
C16_PrimaryNameIsRootsOwn ==
    analyzed =>
        /\ Len(PrimaryRows) = Len(AllRoots)
        /\ \A k \in 1..Len(AllRoots) :
              ~HasOwnOverride(AllRoots[k].body) =>
                  PrimaryRows[k].view_name = AllRoots[k].name

\* the names the "Missing View Files" finding lists (none without the finding)
MissingListed ==
    UNION {assessments[i].details :
             i \in {k \in 1..Len(assessments) : assessments[k].title = "Missing View Files"}}

\* the names the rows refer to that the registry does not hold
UnresolvedNames == {v \in RowNames : v \notin DOMAIN Registry}

\* C17: the "Missing View Files" finding lists exactly the names of the rows
\* that the registry does not hold; every row of such a name has folder
\* "Unknown" and no coverage; a name the registry holds is never listed,
\* and "Good File Integrity" is present exactly when every name of the rows
\* is registered.
C17_MissingAreTheUnresolved ==
    assessments # None =>
        /\ MissingListed = UnresolvedNames
        /\ \A i \in 1..Len(Rows) :
              Rows[i].view_name \in UnresolvedNames =>
                  (Rows[i].folder = "Unknown" /\ Rows[i].coverage = None)
        /\ \A v \in RowNames : v \in DOMAIN Registry => v \notin MissingListed
        /\ "Good File Integrity" \in Titles <=> UnresolvedNames = {}
        /\ \A i \in 1..Len(assessments) :
              assessments[i].title = "Missing View Files" => assessments[i].severity = "Critical"

====
